---- MODULE Spec2Model ----
\* A model of src/app.py, the "AI Prompt Evolution Suite" Streamlit script:
\* the transcript segmenter (seconds_to_hms, format_transcript) as operators,
\* and the session state with one action per button handler of main().
\*
\* Conventions
\*   - A dict is a TLA+ function from key strings to values, the empty dict
\*     being the empty function; Python None is None or NoneDict.
\*   - Python strings the code only stores, compares or tests for truth are
\*     TLA+ strings; texts the code strips (script, template, feedback) are
\*     sequences of code points (ord of each character) so that strip() can
\*     be computed on every character of a Python string.
\*   - A float number of seconds is an integer number of tenths of a second.
\*   - datetime.now() timestamps of the stored records are left out.
\*   - The two key fields of the sidebar are widget values, not session
\*     state: every script run receives them as inputs (gemini_key,
\*     deepgram_key), like the other fields the user fills in.
\*   - Whether the calls in configure_gemini raise is an input of every
\*     script run made with a key in the field.
\*   - A handler is one action. The batch handler shows page elements
\*     between its state changes, where streamlit can end the script run
\*     when the user touches the page; the element at which a run is stopped
\*     is an input of that action. A single-shot handler makes its
\*     session-state assignments with no element call in between; its run
\*     can be stopped when the request is over, before them and before the
\*     handler's error message.
EXTENDS Integers, Sequences, FiniteSets, TLC

VARIABLES
    primary_prompt,      \* st.session_state.primary_prompt
    master_prompt,       \* st.session_state.master_prompt
    call_insights,       \* st.session_state.call_insights
    transcriptions,      \* st.session_state.transcriptions
    api_configured,      \* st.session_state.api_configured
    current_phase,       \* st.session_state.current_phase
    agent_details,       \* st.session_state.agent_details
    refinement_history,  \* st.session_state.refinement_history
    refinement_chat,     \* st.session_state.refinement_chat
    run,                 \* what the last script run did: its trigger, inputs, collaborator calls
    seg_in,              \* segmenter harness: the transcription result handed to format_transcript
    seg_out              \* segmenter harness: what format_transcript made of seg_in

vars == <<primary_prompt, master_prompt, call_insights, transcriptions,
          api_configured, current_phase, agent_details, refinement_history,
          refinement_chat, run, seg_in, seg_out>>

sessionVars == <<primary_prompt, master_prompt, call_insights, transcriptions,
                 api_configured, current_phase, agent_details, refinement_history,
                 refinement_chat, run>>

segVars == <<seg_in, seg_out>>

\* None in a place that otherwise holds a string (no text of the model is "None")
None == "None"

\* None in a place that otherwise holds a dict
NoneDict == [pyNone |-> TRUE]

EmptyDict == <<>>

\* Python truthiness of an optional string
Truthy(x) == x # None /\ x # ""

\* A plausible slip: a response counts only when it has a "results" key.
TruthyDict_hasResults(d) == "results" \in DOMAIN d

\* Python truthiness of an optional dict
TruthyDict(d) == DOMAIN d # {"pyNone"} /\ DOMAIN d # {}

----------------------------------------------------------------------------
\* Bounds of the model

MaxWords == 3

MaxRecords == 2

MaxBatchRecords == 3

MaxRefinements == 2

----------------------------------------------------------------------------
\* Small helpers on sequences and strings

Min(a, b) == IF a < b THEN a ELSE b

RECURSIVE JoinStr(_, _)
\* sep.join(parts) for a sequence of strings
JoinStr(parts, sep) ==
    IF Len(parts) = 0 THEN ""
    ELSE IF Len(parts) = 1 THEN parts[1]
    ELSE parts[1] \o sep \o JoinStr(Tail(parts), sep)

RECURSIVE Flatten(_)
Flatten(seqs) ==
    IF Len(seqs) = 0 THEN <<>> ELSE Head(seqs) \o Flatten(Tail(seqs))

\* Two-digit, zero-padded decimal rendering (the %02d of timedelta.__str__)
Pad2(n) == IF n < 10 THEN "0" \o ToString(n) ELSE ToString(n)

----------------------------------------------------------------------------
\* seconds_to_hms (src/app.py 147-152)

\* A plausible slip: round(seconds) in place of int(seconds).
IntSeconds_round(tenths) == (tenths + 5) \div 10

\* int(seconds): truncation of a non-negative float to whole seconds
IntSeconds(tenths) == tenths \div 10

\* The ':'-separated parts of str(timedelta(seconds=n)) for n >= 0:
\* "H:MM:SS", preceded by "D day, " or "D days, " when n is a day or more.
TimedeltaParts(n) ==
    LET days == n \div 86400
        rest == n % 86400
        hh   == rest \div 3600
        mm   == (rest % 3600) \div 60
        ss   == rest % 60
        dayPrefix == IF days = 0 THEN ""
                     ELSE IF days = 1 THEN "1 day, "
                     ELSE ToString(days) \o " days, "
    IN  <<dayPrefix \o ToString(hh), Pad2(mm), Pad2(ss)>>

seconds_to_hms(seconds) ==
    LET parts == TimedeltaParts(IntSeconds(seconds))
        td    == JoinStr(parts, ":")
        td2   == IF Len(parts) = 2 THEN "00:" \o td ELSE td
    IN  "[" \o td2 \o "]"

----------------------------------------------------------------------------
\* format_transcript (src/app.py 180-216)

NoTranscription == "No transcription available"

\* The loop variables before the first word (lines 188-191). `blocks` holds,
\* for every entry appended to formatted_transcript, the three values the
\* f-string interpolates; RenderBlock makes the appended string of them.
LoopInit ==
    [current_speaker |-> None, current_start |-> None,
     current_text |-> <<>>, blocks |-> <<>>]

SpeakerLabel(word) == "Speaker " \o ToString(word.speaker + 1)

\* A plausible slip: the word that opens a block is not put into it.
LoopBody_dropFirst(st, word) ==
    LET speaker == SpeakerLabel(word)
    IN  IF speaker # st.current_speaker
        THEN [current_speaker |-> speaker,
              current_start   |-> word.start,
              current_text    |-> <<>>,
              blocks |-> IF st.current_speaker # None
                         THEN Append(st.blocks, [start |-> st.current_start,
                                                 speaker |-> st.current_speaker,
                                                 text |-> st.current_text])
                         ELSE st.blocks]
        ELSE [st EXCEPT !.current_text = Append(@, word.word)]

\* A plausible slip: a block is closed at every word, not at a speaker change.
LoopBody_everyWord(st, word) ==
    LET speaker == SpeakerLabel(word)
    IN  [current_speaker |-> speaker,
         current_start   |-> word.start,
         current_text    |-> <<word.word>>,
         blocks |-> IF st.current_speaker # None
                    THEN Append(st.blocks, [start |-> st.current_start,
                                            speaker |-> st.current_speaker,
                                            text |-> st.current_text])
                    ELSE st.blocks]

\* A plausible slip: the start time is taken from every word, so a block ends
\* up with the start of its last word.
LoopBody_lateStart(st, word) ==
    LET speaker == SpeakerLabel(word)
    IN  IF speaker # st.current_speaker
        THEN [current_speaker |-> speaker,
              current_start   |-> word.start,
              current_text    |-> <<word.word>>,
              blocks |-> IF st.current_speaker # None
                         THEN Append(st.blocks, [start |-> st.current_start,
                                                 speaker |-> st.current_speaker,
                                                 text |-> st.current_text])
                         ELSE st.blocks]
        ELSE [st EXCEPT !.current_text = Append(@, word.word),
                        !.current_start = word.start]

\* One iteration of `for word in words` (lines 193-208)
LoopBody(st, word) ==
    LET speaker == SpeakerLabel(word)
    IN  IF speaker # st.current_speaker
        THEN [current_speaker |-> speaker,
              current_start   |-> word.start,
              current_text    |-> <<word.word>>,
              blocks |-> IF st.current_speaker # None
                         THEN Append(st.blocks, [start |-> st.current_start,
                                                 speaker |-> st.current_speaker,
                                                 text |-> st.current_text])
                         ELSE st.blocks]
        ELSE [st EXCEPT !.current_text = Append(@, word.word)]

RECURSIVE RunLoop(_, _)
RunLoop(st, words) ==
    IF Len(words) = 0 THEN st ELSE RunLoop(LoopBody(st, Head(words)), Tail(words))

\* "Add the last block" (lines 211-214)
LastBlock(st) ==
    IF st.current_text # <<>>
    THEN Append(st.blocks, [start |-> st.current_start,
                            speaker |-> st.current_speaker,
                            text |-> st.current_text])
    ELSE st.blocks

\* The blocks appended to formatted_transcript for a word list
Blocks(words) == LastBlock(RunLoop(LoopInit, words))

\* f"{seconds_to_hms(current_start)} {current_speaker}: \"{' '.join(current_text)}\""
RenderBlock(b) ==
    seconds_to_hms(b.start) \o " " \o b.speaker \o ": \"" \o JoinStr(b.text, " ") \o "\""

\* result["results"]["channels"][0]["alternatives"][0]["words"] (line 185)
WordsOf(result) == result.results.channels[1].alternatives[1].words

format_transcript(result) ==
    IF (~TruthyDict(result)) \/ "results" \notin DOMAIN result
    THEN NoTranscription
    ELSE LET bs == Blocks(WordsOf(result))
         IN  JoinStr([i \in 1..Len(bs) |-> RenderBlock(bs[i])], "\n")

----------------------------------------------------------------------------
\* Segmenter harness: format_transcript applied to bounded inputs

WordTexts == {"hi", "there"}

SpeakerIds == {0, 1}

\* Start times in tenths of a second: 0.0, 0.4, 1.0, 59.9, 3661.0, 86400.0
StartTimes == {0, 4, 10, 599, 36610, 864000}

WordSet == [word : WordTexts, start : StartTimes, speaker : SpeakerIds]

\* Word lists as the transcription service returns them: ordered by time
WordLists ==
    UNION {{ws \in [1..n -> WordSet] :
               \A i \in 1..(n - 1) : ws[i].start <= ws[i + 1].start} : n \in 0..MaxWords}

\* A 200 response body with the word list where format_transcript looks for it
WordsResult(ws) ==
    [results |-> [channels |-> <<[alternatives |-> <<[words |-> ws]>>]>>]]

\* A non-empty response body without a "results" key
NoResultsDict == [metadata |-> "request"]

SegInputs == {NoneDict, EmptyDict, NoResultsDict} \cup {WordsResult(ws) : ws \in WordLists}

SegPending == [done |-> FALSE, text |-> "", lines |-> <<>>, blocks |-> <<>>]

HasWords(result) == TruthyDict(result) /\ "results" \in DOMAIN result

\* The call format_transcript(seg_in); next to the returned text the harness
\* keeps the entries of the list formatted_transcript and their ingredients.
Segment ==
    /\ seg_out = SegPending
    /\ seg_out' =
          LET bs == IF HasWords(seg_in) THEN Blocks(WordsOf(seg_in)) ELSE <<>>
          IN  [done   |-> TRUE,
               text   |-> format_transcript(seg_in),
               lines  |-> [i \in 1..Len(bs) |-> RenderBlock(bs[i])],
               blocks |-> bs]
    /\ UNCHANGED <<seg_in, sessionVars>>

----------------------------------------------------------------------------
\* The collaborators and the inputs of the user actions

ModelObj == "gemini-2.5-flash"

\* Outcome of model.generate_content(...).text when it raises
GenRaise == "!exception"

PrimaryResponses == {GenRaise, "", "primary v1"}

InsightResponses == {GenRaise, "", "insights A", "insights B"}

MasterResponses == {GenRaise, "", "master v1"}

RefineResponses == {GenRaise, "", "master v2"}

KeyInputs == {"", "key"}

\* " " is a name of one space, which the form accepts like any other text
AgentNames == {"", " ", "Riya"}

CompanyNames == {"", "Acme"}

AgentLanguages == {"Hinglish"}

PromptCategories == {"Lead Qualification"}

\* Texts typed by the user: nothing, a space, a carriage return and an em
\* space, and "ok"
TypedTexts == {<<>>, <<32>>, <<13, 8195>>, <<111, 107>>}

FileNames == {"a.mp3", "b.mp3"}

\* Responses of the transcription request as transcribe_audio returns them:
\* None (status other than 200, or an exception), or the JSON body.
SampleWords ==
    <<[word |-> "hi", start |-> 0, speaker |-> 0],
      [word |-> "there", start |-> 4, speaker |-> 0],
      [word |-> "hello", start |-> 10, speaker |-> 1]>>

TranscribeResponses == {NoneDict, NoResultsDict, WordsResult(SampleWords)}

\* What happens to one file of a batch: the transcription response and, when
\* the code gets that far, the response of the insight request.
FileOutcomes(trs, gens) ==
    {[tr |-> NoneDict, gen |-> GenRaise]} \cup [tr : trs \ {NoneDict}, gen : gens]

\* The lists the file uploader can hold: one to n files; two uploaded files
\* may have the same name
Uploads(names, n) == UNION {[1..k -> names] : k \in 1..n}

\* The characters str.strip() removes, those for which str.isspace() holds,
\* as code points: tab to carriage return (9-13), the separators 28-31,
\* space (32), next line (133), no-break space (160), ogham space mark
\* (5760), en quad to hair space (8192-8202), line and paragraph separator
\* (8232, 8233), narrow no-break space (8239), medium mathematical space
\* (8287) and ideographic space (12288)
WhiteSpace ==
    (9..13) \cup (28..32) \cup {133, 160, 5760} \cup (8192..8202)
        \cup {8232, 8233, 8239, 8287, 12288}

\* str.isspace() of one character
IsSpace(c) == c \in WhiteSpace

RECURSIVE LStrip(_)
LStrip(s) == IF Len(s) > 0 /\ IsSpace(Head(s)) THEN LStrip(Tail(s)) ELSE s

RECURSIVE RStrip(_)
RStrip(s) == IF Len(s) > 0 /\ IsSpace(s[Len(s)]) THEN RStrip(SubSeq(s, 1, Len(s) - 1)) ELSE s

\* A plausible slip: the text is tested without being stripped.
Strip_missing(s) == s

\* str.strip()
Strip(s) == RStrip(LStrip(s))

----------------------------------------------------------------------------
\* Every script run: session-state defaults (lines 116-133), sidebar (550-603)

Defaults ==
    [primary_prompt |-> None, master_prompt |-> None, call_insights |-> <<>>,
     transcriptions |-> <<>>, api_configured |-> FALSE, current_phase |-> 1,
     agent_details |-> EmptyDict, refinement_history |-> <<>>,
     refinement_chat |-> <<>>]

\* `if key not in st.session_state: st.session_state.key = default`
InitKey(present, key, value) == IF present THEN value ELSE Defaults[key]

\* configure_gemini (lines 135-145); raises: genai.configure or
\* genai.GenerativeModel raises
configure_gemini(api_key, raises) ==
    IF raises THEN [api_configured |-> FALSE, model |-> None]
    ELSE [api_configured |-> TRUE, model |-> ModelObj]

\* Whether the calls in configure_gemini raise, for a script run with this
\* key field; with an empty field the function is not called
ConfigureOutcomes(gemini_key) == IF gemini_key = "" THEN {FALSE} ELSE BOOLEAN

\* "Configure Gemini" in the sidebar (lines 573-582): the flag set by an
\* earlier run is left as it is when the key field is empty.
Sidebar(api, gemini_key, configure_raises) ==
    IF gemini_key # "" THEN configure_gemini(gemini_key, configure_raises)
    ELSE [api_configured |-> api, model |-> None]

\* st.rerun(): one more script run, with the same widget values, in which no
\* button is pressed; the values api_configured can have after it
AfterRerun(api, gemini_key) ==
    {Sidebar(api, gemini_key, raises).api_configured : raises \in ConfigureOutcomes(gemini_key)}

\* A plausible slip: the except branch returns the text of the exception.
GenResult_errorText(model, resp) ==
    IF model = None THEN None ELSE resp

\* The text a generate_* function returns: None when the call raises, which
\* it also does, before any request is sent, when model is None.
GenResult(model, resp) ==
    IF model = None \/ resp = GenRaise THEN None ELSE resp

GenCalls(model, kind, request, resp) ==
    IF model = None THEN <<>>
    ELSE <<[to |-> "gemini", kind |-> kind, request |-> request, response |-> resp]>>

\* dict.get(key, default)
Get(d, key, default) == IF key \in DOMAIN d THEN d[key] ELSE default

AgentFields(details) ==
    [name     |-> Get(details, "name", "Agent"),
     company  |-> Get(details, "company", "Company"),
     language |-> Get(details, "language", "Hinglish"),
     category |-> Get(details, "category", "General")]

\* The record of a script run: the button pressed, the inputs the handler
\* read (for Reset: what the session held), the error it showed, the requests
\* it sent, and for a batch the files processed and the two counters.
RunRec(op, inputs, error, calls, files, succ, fail) ==
    [op |-> op, inputs |-> inputs, error |-> error, calls |-> calls, files |-> files,
     successful_analyses |-> succ, failed_analyses |-> fail]

NoRun == RunRec("start", <<>>, "", <<>>, <<>>, 0, 0)

----------------------------------------------------------------------------
\* The state after the first script run of a session

Init ==
    /\ primary_prompt = Defaults.primary_prompt
    /\ master_prompt = Defaults.master_prompt
    /\ call_insights = Defaults.call_insights
    /\ transcriptions = Defaults.transcriptions
    /\ api_configured = Defaults.api_configured
    /\ current_phase = Defaults.current_phase
    /\ agent_details = Defaults.agent_details
    /\ refinement_history = Defaults.refinement_history
    /\ refinement_chat = Defaults.refinement_chat
    /\ run = NoRun
    /\ seg_in = NoneDict
    /\ seg_out = SegPending

----------------------------------------------------------------------------
\* Sidebar (lines 550-603)

\* The user edits a key field; the script runs with the new values.
EditSidebar(gemini_key, configure_raises) ==
    /\ api_configured' = Sidebar(api_configured, gemini_key, configure_raises).api_configured
    /\ run' = RunRec("edit_sidebar", <<>>, "", <<>>, <<>>, 0, 0)
    /\ UNCHANGED <<primary_prompt, master_prompt, call_insights, transcriptions,
                   current_phase, agent_details, refinement_history, refinement_chat,
                   segVars>>

\* A plausible slip: the refinement history is missing from the list.
ResetKeys_noHistory ==
    {"primary_prompt", "master_prompt", "call_insights", "transcriptions",
     "agent_details", "refinement_chat"}

\* A plausible slip: the master prompt is missing from the list.
ResetKeys_keepsMaster ==
    {"primary_prompt", "call_insights", "transcriptions",
     "agent_details", "refinement_history", "refinement_chat"}

\* The keys the Reset handler deletes (line 599)
ResetKeys ==
    {"primary_prompt", "master_prompt", "call_insights", "transcriptions",
     "agent_details", "refinement_history", "refinement_chat"}

\* "Reset All Progress" (lines 598-603): the listed keys are deleted, the phase
\* is set to 1, and the rerun recreates the deleted keys with their defaults.
ResetAllProgress(gemini_key, configure_raises) ==
    LET sb == Sidebar(api_configured, gemini_key, configure_raises)
        kept(key) == key \notin ResetKeys
    IN  /\ primary_prompt' = InitKey(kept("primary_prompt"), "primary_prompt", primary_prompt)
        /\ master_prompt' = InitKey(kept("master_prompt"), "master_prompt", master_prompt)
        /\ call_insights' = InitKey(kept("call_insights"), "call_insights", call_insights)
        /\ transcriptions' = InitKey(kept("transcriptions"), "transcriptions", transcriptions)
        /\ agent_details' = InitKey(kept("agent_details"), "agent_details", agent_details)
        /\ refinement_history' =
              InitKey(kept("refinement_history"), "refinement_history", refinement_history)
        /\ refinement_chat' = InitKey(kept("refinement_chat"), "refinement_chat", refinement_chat)
        /\ current_phase' = InitKey(TRUE, "current_phase", 1)
        /\ api_configured' \in
              {InitKey(kept("api_configured"), "api_configured", api) :
                  api \in AfterRerun(sb.api_configured, gemini_key)}
        /\ run' = RunRec("reset",
                         [had_primary |-> Truthy(primary_prompt),
                          had_master |-> Truthy(master_prompt),
                          insights |-> Len(call_insights),
                          refinements |-> Len(refinement_history)],
                         "", <<>>, <<>>, 0, 0)
        /\ UNCHANGED segVars

----------------------------------------------------------------------------
\* Phase 1 (lines 616-790); the form is shown while there is no primary prompt

\* A plausible slip: only the name is tested.
AllFilled_nameOnly(agent_name, company_name, agent_language, prompt_category) ==
    agent_name # ""

\* `agent_name and company_name and agent_language and prompt_category`
\* (line 686): the truth of a string is its being non-empty
AllFilled(agent_name, company_name, agent_language, prompt_category) ==
    agent_name # "" /\ company_name # "" /\ agent_language # "" /\ prompt_category # ""

\* "Save Agent Details" (lines 685-695)
SaveAgentDetails(agent_name, company_name, agent_language, prompt_category, gemini_key, configure_raises) ==
    LET sb == Sidebar(api_configured, gemini_key, configure_raises)
        filled == AllFilled(agent_name, company_name, agent_language, prompt_category)
    IN  /\ ~Truthy(primary_prompt)
        /\ agent_details' =
              IF filled
              THEN [name |-> agent_name, company |-> company_name,
                    language |-> agent_language, category |-> prompt_category]
              ELSE agent_details
        /\ api_configured' = sb.api_configured
        /\ run' = RunRec("save_agent_details",
                         <<agent_name, company_name, agent_language, prompt_category>>,
                         IF filled THEN "" ELSE "Please fill all required fields",
                         <<>>, <<>>, 0, 0)
        /\ UNCHANGED <<primary_prompt, master_prompt, call_insights, transcriptions,
                       current_phase, refinement_history, refinement_chat, segVars>>

\* The values generate_primary_prompt interpolates into its request (lines 221-294)
PrimaryRequest(script_content, template_content, details) ==
    [agent |-> AgentFields(details), script |-> script_content,
     template |-> template_content]

\* A plausible slip: the phase is not advanced when the primary prompt is stored.
StorePrimary_stalePhase(phase, primary) ==
    [primary_prompt |-> primary, current_phase |-> phase]

\* The two assignments of a successful generation (lines 786-787)
StorePrimary(phase, primary) ==
    [primary_prompt |-> primary, current_phase |-> 2]

\* "Generate Primary Prompt" (lines 774-790). stopped: the script run is ended
\* at the end of the st.spinner of generate_primary_prompt (lines 295-297) or
\* at its st.error (line 300): the request is over and nothing is stored.
GeneratePrimaryPrompt(script_content, template_content, resp, stopped, gemini_key, configure_raises) ==
    LET sb == Sidebar(api_configured, gemini_key, configure_raises)
        error == IF DOMAIN agent_details = {} THEN "Please save agent details first"
                 ELSE IF Strip(script_content) = <<>> THEN "Please provide a script"
                 ELSE IF Strip(template_content) = <<>> THEN "Please provide a template"
                 ELSE IF ~sb.api_configured THEN "Please configure Gemini API key"
                 ELSE ""
        request == PrimaryRequest(script_content, template_content, agent_details)
        returned == IF error = "" THEN GenResult(sb.model, resp) ELSE None
        primary == IF stopped THEN None ELSE returned
        calls == IF error = "" THEN GenCalls(sb.model, "primary", request, resp) ELSE <<>>
    IN  /\ ~Truthy(primary_prompt)
        /\ stopped => error = ""
        /\ IF Truthy(primary)
           THEN /\ primary_prompt' = StorePrimary(current_phase, primary).primary_prompt
                /\ current_phase' = StorePrimary(current_phase, primary).current_phase
                /\ api_configured' \in AfterRerun(sb.api_configured, gemini_key)
           ELSE /\ UNCHANGED <<primary_prompt, current_phase>>
                /\ api_configured' = sb.api_configured
        /\ run' = RunRec("generate_primary",
                         [gemini_key |-> gemini_key, script |-> script_content,
                          template |-> template_content, stopped |-> stopped],
                         error, calls, <<>>, 0, 0)
        /\ UNCHANGED <<master_prompt, call_insights, transcriptions, agent_details,
                       refinement_history, refinement_chat, segVars>>

----------------------------------------------------------------------------
\* Phase 2 (lines 793-989); shown once there is a primary prompt

\* The values extract_call_insights interpolates into its request (lines 307-348)
InsightRequest(transcript, primary) ==
    [primary_prompt |-> primary, transcript |-> transcript]

\* The lists and counters before the first file of a batch (lines 880-881)
BatchStart(trs, ins) ==
    [transcriptions |-> trs, call_insights |-> ins, calls |-> <<>>,
     successful_analyses |-> 0, failed_analyses |-> 0]

\* The request transcribe_audio sends for a file (lines 157-169)
TranscribeCall(file, dkey, transcription_result) ==
    [to |-> "deepgram", kind |-> "transcribe",
     request |-> [file |-> file, key |-> dkey], response |-> transcription_result]

\* A plausible slip: a failed transcription is not counted.
ProcessFile_uncounted(acc, file, outcome, dkey, model, primary) ==
    LET transcription_result == outcome.tr
        transcribed == Append(acc.calls, TranscribeCall(file, dkey, transcription_result))
    IN  IF TruthyDict(transcription_result)
        THEN LET formatted_transcript == format_transcript(transcription_result)
                 request  == InsightRequest(formatted_transcript, primary)
                 insights == GenResult(model, outcome.gen)
                 a1 == [acc EXCEPT
                          !.transcriptions = Append(@, [filename |-> file,
                                                        transcript |-> formatted_transcript]),
                          !.calls = transcribed \o
                                    GenCalls(model, "insights", request, outcome.gen)]
             IN  IF Truthy(insights)
                 THEN [a1 EXCEPT
                          !.call_insights = Append(@, [filename |-> file,
                                                       insights |-> insights,
                                                       transcript |-> formatted_transcript]),
                          !.successful_analyses = @ + 1]
                 ELSE [a1 EXCEPT !.failed_analyses = @ + 1]
        ELSE [acc EXCEPT !.calls = transcribed]

\* A plausible slip: a new insight record is put in front of the list.
ProcessFile_prepend(acc, file, outcome, dkey, model, primary) ==
    LET transcription_result == outcome.tr
        transcribed == Append(acc.calls, TranscribeCall(file, dkey, transcription_result))
    IN  IF TruthyDict(transcription_result)
        THEN LET formatted_transcript == format_transcript(transcription_result)
                 request  == InsightRequest(formatted_transcript, primary)
                 insights == GenResult(model, outcome.gen)
                 a1 == [acc EXCEPT
                          !.transcriptions = Append(@, [filename |-> file,
                                                        transcript |-> formatted_transcript]),
                          !.calls = transcribed \o
                                    GenCalls(model, "insights", request, outcome.gen)]
             IN  IF Truthy(insights)
                 THEN [a1 EXCEPT
                          !.call_insights = <<[filename |-> file,
                                               insights |-> insights,
                                               transcript |-> formatted_transcript]>> \o @,
                          !.successful_analyses = @ + 1]
                 ELSE [a1 EXCEPT !.failed_analyses = @ + 1]
        ELSE [acc EXCEPT !.calls = transcribed, !.failed_analyses = @ + 1]

\* A plausible slip: a failed transcription request is sent a second time.
ProcessFile_retry(acc, file, outcome, dkey, model, primary) ==
    LET transcription_result == outcome.tr
        transcribed == LET first == Append(acc.calls, TranscribeCall(file, dkey, transcription_result))
                       IN  IF TruthyDict(transcription_result) THEN first
                           ELSE Append(first, TranscribeCall(file, dkey, transcription_result))
    IN  IF TruthyDict(transcription_result)
        THEN LET formatted_transcript == format_transcript(transcription_result)
                 request  == InsightRequest(formatted_transcript, primary)
                 insights == GenResult(model, outcome.gen)
                 a1 == [acc EXCEPT
                          !.transcriptions = Append(@, [filename |-> file,
                                                        transcript |-> formatted_transcript]),
                          !.calls = transcribed \o
                                    GenCalls(model, "insights", request, outcome.gen)]
             IN  IF Truthy(insights)
                 THEN [a1 EXCEPT
                          !.call_insights = Append(@, [filename |-> file,
                                                       insights |-> insights,
                                                       transcript |-> formatted_transcript]),
                          !.successful_analyses = @ + 1]
                 ELSE [a1 EXCEPT !.failed_analyses = @ + 1]
        ELSE [acc EXCEPT !.calls = transcribed, !.failed_analyses = @ + 1]

\* A plausible slip: a file counts as analysed once it is transcribed.
ProcessFile_countsTranscript(acc, file, outcome, dkey, model, primary) ==
    LET transcription_result == outcome.tr
        transcribed == Append(acc.calls, TranscribeCall(file, dkey, transcription_result))
    IN  IF TruthyDict(transcription_result)
        THEN LET formatted_transcript == format_transcript(transcription_result)
                 request  == InsightRequest(formatted_transcript, primary)
                 insights == GenResult(model, outcome.gen)
                 a1 == [acc EXCEPT
                          !.transcriptions = Append(@, [filename |-> file,
                                                        transcript |-> formatted_transcript]),
                          !.calls = transcribed \o
                                    GenCalls(model, "insights", request, outcome.gen)]
             IN  IF Truthy(insights)
                 THEN [a1 EXCEPT
                          !.call_insights = Append(@, [filename |-> file,
                                                       insights |-> insights,
                                                       transcript |-> formatted_transcript]),
                          !.successful_analyses = @ + 1]
                 ELSE [a1 EXCEPT !.successful_analyses = @ + 1]
        ELSE [acc EXCEPT !.calls = transcribed, !.failed_analyses = @ + 1]

\* A plausible slip: the transcript is stored only once its insights exist.
ProcessFile_lateTranscript(acc, file, outcome, dkey, model, primary) ==
    LET transcription_result == outcome.tr
        transcribed == Append(acc.calls, TranscribeCall(file, dkey, transcription_result))
    IN  IF TruthyDict(transcription_result)
        THEN LET formatted_transcript == format_transcript(transcription_result)
                 request  == InsightRequest(formatted_transcript, primary)
                 insights == GenResult(model, outcome.gen)
                 a0 == [acc EXCEPT
                          !.calls = transcribed \o
                                    GenCalls(model, "insights", request, outcome.gen)]
                 a1 == [a0 EXCEPT
                          !.transcriptions = Append(@, [filename |-> file,
                                                        transcript |-> formatted_transcript])]
             IN  IF Truthy(insights)
                 THEN [a1 EXCEPT
                          !.call_insights = Append(@, [filename |-> file,
                                                       insights |-> insights,
                                                       transcript |-> formatted_transcript]),
                          !.successful_analyses = @ + 1]
                 ELSE [a0 EXCEPT !.failed_analyses = @ + 1]
        ELSE [acc EXCEPT !.calls = transcribed, !.failed_analyses = @ + 1]

\* One iteration of `for i, audio_file in enumerate(files_to_process)`
\* (lines 888-938): transcribe, format and store the transcript, extract the
\* insights, store them, count a success or a failure.
ProcessFile(acc, file, outcome, dkey, model, primary) ==
    LET transcription_result == outcome.tr
        transcribed == Append(acc.calls, TranscribeCall(file, dkey, transcription_result))
    IN  IF TruthyDict(transcription_result)
        THEN LET formatted_transcript == format_transcript(transcription_result)
                 request  == InsightRequest(formatted_transcript, primary)
                 insights == GenResult(model, outcome.gen)
                 a1 == [acc EXCEPT
                          !.transcriptions = Append(@, [filename |-> file,
                                                        transcript |-> formatted_transcript]),
                          !.calls = transcribed \o
                                    GenCalls(model, "insights", request, outcome.gen)]
             IN  IF Truthy(insights)
                 THEN [a1 EXCEPT
                          !.call_insights = Append(@, [filename |-> file,
                                                       insights |-> insights,
                                                       transcript |-> formatted_transcript]),
                          !.successful_analyses = @ + 1]
                 ELSE [a1 EXCEPT !.failed_analyses = @ + 1]
        ELSE [acc EXCEPT !.calls = transcribed, !.failed_analyses = @ + 1]

RECURSIVE ProcessFiles(_, _, _, _, _, _)
ProcessFiles(acc, files, outcomes, dkey, model, primary) ==
    IF Len(files) = 0 THEN acc
    ELSE ProcessFiles(ProcessFile(acc, Head(files), Head(outcomes), dkey, model, primary),
                      Tail(files), Tail(outcomes), dkey, model, primary)

ProcessModes == {"Process All at Once", "Process One by One"}

\* files_to_process (lines 874-877); selected_file_index counts from 0
FilesToProcess(uploaded_audios, process_mode, selected_file_index) ==
    IF process_mode = "Process All at Once" THEN uploaded_audios
    ELSE <<uploaded_audios[selected_file_index + 1]>>

\* The script run of a batch can be stopped: when the user interacts with the
\* page while the files are processed, streamlit ends the run at the next
\* element call (st.progress, st.spinner, st.info, st.success, st.error, ...)
\* and starts the next one. What the session holds then depends on the last
\* element call passed. For file number `file` of the batch:
\*   "iteration"         lines 889-897, before transcribe_audio: nothing of
\*                       the file is done
\*   "transcribe_error"  st.error in transcribe_audio (lines 174, 177): the
\*                       request failed and is not yet counted
\*   "before_insights"   line 910, or st.spinner of extract_call_insights
\*                       (line 350): the transcript is appended
\*   "after_insights"    the end of that st.spinner, or st.error (line 355):
\*                       the insight request is over, its result not yet used
\* A run stopped after the last state change of the loop leaves what a run
\* that reaches its end leaves.
NoStop == [file |-> 0, at |-> "none"]

StopPoints == {"iteration", "transcribe_error", "before_insights", "after_insights"}

\* The loop variables when the run is stopped at `at` in the iteration of
\* `file`, entered with the loop variables acc
StoppedFile(acc, file, outcome, dkey, model, primary, at) ==
    LET transcription_result == outcome.tr
        transcribed == Append(acc.calls, TranscribeCall(file, dkey, transcription_result))
        formatted_transcript == format_transcript(transcription_result)
        stored == [acc EXCEPT
                     !.transcriptions = Append(@, [filename |-> file,
                                                   transcript |-> formatted_transcript]),
                     !.calls = transcribed]
    IN  IF at = "iteration" THEN acc
        ELSE IF at = "transcribe_error" THEN [acc EXCEPT !.calls = transcribed]
        ELSE IF at = "before_insights" THEN stored
        ELSE [stored EXCEPT
                 !.calls = @ \o GenCalls(model, "insights",
                                         InsightRequest(formatted_transcript, primary),
                                         outcome.gen)]

\* The files whose requests have an outcome in a run stopped at `stop`: all
\* of files_to_process in a run that is not stopped
FilesReached(files, stop) ==
    IF stop = NoStop THEN files
    ELSE IF stop.at = "iteration" THEN SubSeq(files, 1, stop.file - 1)
    ELSE SubSeq(files, 1, stop.file)

\* The key tests of the button (lines 868-871)
BatchError(api, deepgram_key) ==
    IF deepgram_key = "" THEN "Please provide Deepgram API key in sidebar"
    ELSE IF ~api THEN "Please configure Gemini API key"
    ELSE ""

\* The "Analyze ..." button (lines 867-965); cap bounds the transcription list
AnalyzeCalls(cap, uploaded_audios, process_mode, selected_file_index, outcomes, stop, gemini_key, deepgram_key, configure_raises) ==
    LET sb == Sidebar(api_configured, gemini_key, configure_raises)
        files_to_process == FilesToProcess(uploaded_audios, process_mode, selected_file_index)
        error == BatchError(sb.api_configured, deepgram_key)
        start == BatchStart(transcriptions, call_insights)
        reached == IF error = "" THEN FilesReached(files_to_process, stop) ELSE <<>>
        whole == IF stop = NoStop \/ stop.at = "iteration"
                 THEN Len(reached) ELSE Len(reached) - 1
    IN  /\ Truthy(primary_prompt)
        /\ Len(transcriptions) + Len(files_to_process) <= cap
        /\ stop = NoStop \/ (error = "" /\ stop.file \in 1..Len(files_to_process)
                                        /\ stop.at \in StopPoints)
        /\ Len(outcomes) = Len(reached)
        /\ stop.at = "transcribe_error" => ~TruthyDict(outcomes[stop.file].tr)
        /\ stop.at \in {"before_insights", "after_insights"}
              => TruthyDict(outcomes[stop.file].tr)
        /\ \E end \in {IF error # "" THEN start
                       ELSE IF whole = Len(reached)
                       THEN ProcessFiles(start, reached, outcomes, deepgram_key,
                                         sb.model, primary_prompt)
                       ELSE StoppedFile(ProcessFiles(start, SubSeq(reached, 1, whole),
                                                     SubSeq(outcomes, 1, whole),
                                                     deepgram_key, sb.model, primary_prompt),
                                        reached[stop.file], outcomes[stop.file],
                                        deepgram_key, sb.model, primary_prompt, stop.at)} :
              /\ transcriptions' = end.transcriptions
              /\ call_insights' = end.call_insights
              /\ run' = RunRec("analyze_calls",
                               [gemini_key |-> gemini_key, deepgram_key |-> deepgram_key,
                                stop |-> stop],
                               error, end.calls, files_to_process,
                               end.successful_analyses, end.failed_analyses)
        /\ api_configured' = sb.api_configured
        /\ UNCHANGED <<primary_prompt, master_prompt, current_phase, agent_details,
                       refinement_history, refinement_chat, segVars>>

\* The outcomes that tell apart the runs stopped at `at` in a file's
\* iteration: the insight response plays no part before the insight request
StoppedOutcomes(fileOutcomes, at) ==
    IF at = "iteration" THEN {}
    ELSE IF at = "transcribe_error" THEN {o \in fileOutcomes : ~TruthyDict(o.tr)}
    ELSE IF at = "after_insights" THEN {o \in fileOutcomes : TruthyDict(o.tr)}
    ELSE {CHOOSE o \in fileOutcomes : o.tr = tr :
             tr \in {o.tr : o \in {f \in fileOutcomes : TruthyDict(f.tr)}}}

\* The button pressed with any uploaded files, processing mode and selection,
\* any outcome of the requests made for the files and, with stopPoints, a
\* stop of the run at any of these points
AnalyzeUploaded(cap, uploads, fileOutcomes, stopPoints, gemini_key, deepgram_key, configure_raises) ==
    /\ Truthy(primary_prompt)
    /\ Len(transcriptions) < cap
    /\ \E up \in {u \in uploads : Len(u) <= cap - Len(transcriptions)},
          mode \in ProcessModes :
          \E idx \in 0..(Len(up) - 1) :
             LET files == FilesToProcess(up, mode, idx)
                 error == BatchError(Sidebar(api_configured, gemini_key,
                                             configure_raises).api_configured,
                                     deepgram_key)
             IN  \/ \E outs \in [1..(IF error = "" THEN Len(files) ELSE 0) -> fileOutcomes] :
                       AnalyzeCalls(cap, up, mode, idx, outs, NoStop, gemini_key,
                                    deepgram_key, configure_raises)
                 \/ /\ error = ""
                    /\ \E stop \in [file : 1..Len(files), at : stopPoints] :
                          \E outs \in [1..(stop.file - 1) -> fileOutcomes] :
                             \/ /\ stop.at = "iteration"
                                /\ AnalyzeCalls(cap, up, mode, idx, outs, stop, gemini_key,
                                                deepgram_key, configure_raises)
                             \/ \E last \in StoppedOutcomes(fileOutcomes, stop.at) :
                                   AnalyzeCalls(cap, up, mode, idx, Append(outs, last),
                                                stop, gemini_key, deepgram_key,
                                                configure_raises)

\* "Proceed to Phase 3" (lines 980-989)
ProceedToPhase3(gemini_key, configure_raises) ==
    LET sb == Sidebar(api_configured, gemini_key, configure_raises)
    IN  /\ Truthy(primary_prompt)
        /\ Len(call_insights) > 0
        /\ current_phase' = 3
        /\ api_configured' \in AfterRerun(sb.api_configured, gemini_key)
        /\ run' = RunRec("proceed_to_phase_3", <<>>, "", <<>>, <<>>, 0, 0)
        /\ UNCHANGED <<primary_prompt, master_prompt, call_insights, transcriptions,
                       agent_details, refinement_history, refinement_chat, segVars>>

----------------------------------------------------------------------------
\* Phase 3 (lines 1049-1154); shown once there are a primary prompt and insights

\* A plausible slip: the handler also steps the phase back to 3.
RegenerateMasterPrompt_resetsPhase(gemini_key, configure_raises) ==
    LET sb == Sidebar(api_configured, gemini_key, configure_raises)
    IN  /\ Truthy(primary_prompt)
        /\ Len(call_insights) > 0
        /\ Truthy(master_prompt)
        /\ master_prompt' = None
        /\ current_phase' = 3
        /\ api_configured' \in AfterRerun(sb.api_configured, gemini_key)
        /\ run' = RunRec("regenerate_master", <<>>, "", <<>>, <<>>, 0, 0)
        /\ UNCHANGED <<primary_prompt, call_insights, transcriptions,
                       agent_details, refinement_history, refinement_chat, segVars>>

\* "Regenerate Master Prompt" (lines 1092-1094), shown while a master prompt exists
RegenerateMasterPrompt(gemini_key, configure_raises) ==
    LET sb == Sidebar(api_configured, gemini_key, configure_raises)
    IN  /\ Truthy(primary_prompt)
        /\ Len(call_insights) > 0
        /\ Truthy(master_prompt)
        /\ master_prompt' = None
        /\ api_configured' \in AfterRerun(sb.api_configured, gemini_key)
        /\ run' = RunRec("regenerate_master", <<>>, "", <<>>, <<>>, 0, 0)
        /\ UNCHANGED <<primary_prompt, call_insights, transcriptions, current_phase,
                       agent_details, refinement_history, refinement_chat, segVars>>

\* A plausible slip: only the latest record is used.
AllInsights_lastOnly(insights) == <<insights[Len(insights)].insights>>

\* all_insights (line 1137)
AllInsights(insights) == [i \in 1..Len(insights) |-> insights[i].insights]

\* The values generate_master_prompt interpolates into its request (lines 361-413)
MasterRequest(primary, all_insights, details) ==
    [agent |-> AgentFields(details), primary_prompt |-> primary,
     combined_insights |-> JoinStr(all_insights, "\n\n---\n\n")]

\* The two assignments of a successful generation (lines 1148-1149)
StoreMaster(phase, master) ==
    [master_prompt |-> master, current_phase |-> 4]

\* "Generate Master Prompt" (lines 1132-1154), shown while there is no master
\* prompt. stopped: the script run is ended at the end of the st.spinner of
\* generate_master_prompt (line 415), at its st.error (line 420) or at the
\* st.error of line 1154: the request is over, nothing is stored and the
\* handler has shown no error.
GenerateMasterPrompt(resp, stopped, gemini_key, configure_raises) ==
    LET sb == Sidebar(api_configured, gemini_key, configure_raises)
        error0 == IF ~sb.api_configured THEN "Please configure Gemini API key" ELSE ""
        request == MasterRequest(primary_prompt, AllInsights(call_insights), agent_details)
        returned == IF error0 = "" THEN GenResult(sb.model, resp) ELSE None
        master == IF stopped THEN None ELSE returned
        calls == IF error0 = "" THEN GenCalls(sb.model, "master", request, resp) ELSE <<>>
        error == IF error0 = "" /\ ~Truthy(returned) /\ ~stopped
                 THEN "Failed to generate master prompt" ELSE error0
    IN  /\ Truthy(primary_prompt)
        /\ stopped => error0 = ""
        /\ Len(call_insights) > 0
        /\ ~Truthy(master_prompt)
        /\ IF Truthy(master)
           THEN /\ master_prompt' = StoreMaster(current_phase, master).master_prompt
                /\ current_phase' = StoreMaster(current_phase, master).current_phase
                /\ api_configured' \in AfterRerun(sb.api_configured, gemini_key)
           ELSE /\ UNCHANGED <<master_prompt, current_phase>>
                /\ api_configured' = sb.api_configured
        /\ run' = RunRec("generate_master", [gemini_key |-> gemini_key, stopped |-> stopped],
                         error, calls, <<>>, 0, 0)
        /\ UNCHANGED <<primary_prompt, call_insights, transcriptions, agent_details,
                       refinement_history, refinement_chat, segVars>>

----------------------------------------------------------------------------
\* Phase 4 (lines 1157-1276); shown while a master prompt exists

\* The values refine_master_prompt interpolates into its request (lines 426-451)
RefineRequest(current_prompt, user_feedback) ==
    [current_prompt |-> current_prompt, user_feedback |-> user_feedback]

\* 'summary' of a refinement record (line 1232)
Summary(user_feedback) ==
    [lead |-> "Updated prompt based on: ",
     text |-> SubSeq(user_feedback, 1, Min(100, Len(user_feedback))),
     tail |-> IF Len(user_feedback) > 100 THEN "..." ELSE ""]

\* A plausible slip: the master prompt is replaced before the record is made.
ApplyRefinement_lateRecord(history, master, user_feedback, refined_prompt) ==
    [refinement_history |->
        Append(history, [feedback   |-> user_feedback,
                         old_prompt |-> refined_prompt,
                         new_prompt |-> refined_prompt,
                         summary    |-> Summary(user_feedback)]),
     master_prompt |-> refined_prompt]

\* A plausible slip: the new record is inserted at the head of the list.
ApplyRefinement_prepend(history, master, user_feedback, refined_prompt) ==
    [refinement_history |->
        <<[feedback   |-> user_feedback,
           old_prompt |-> master,
           new_prompt |-> refined_prompt,
           summary    |-> Summary(user_feedback)]>> \o history,
     master_prompt |-> refined_prompt]

\* "Save to history" and "Update current prompt" (lines 1228-1237)
ApplyRefinement(history, master, user_feedback, refined_prompt) ==
    [refinement_history |->
        Append(history, [feedback   |-> user_feedback,
                         old_prompt |-> master,
                         new_prompt |-> refined_prompt,
                         summary    |-> Summary(user_feedback)]),
     master_prompt |-> refined_prompt]

\* "Refine Prompt" (lines 1213-1243). `disabled` comes from the feedback of
\* the script run that drew the button, so the press can arrive together with
\* a feedback the user has blanked since; the handler tests it again.
\* stopped: the script run is ended at the end of the st.spinner of
\* refine_master_prompt (line 453), at its st.error (line 458) or at the
\* st.error of line 1243: the request is over, nothing is stored and the
\* handler has shown no error.
RefinePrompt(user_feedback, resp, stopped, gemini_key, configure_raises) ==
    LET sb == Sidebar(api_configured, gemini_key, configure_raises)
        error0 == IF ~sb.api_configured THEN "Please configure Gemini API key"
                  ELSE IF Strip(user_feedback) = <<>> THEN "Please describe the issue"
                  ELSE ""
        request == RefineRequest(master_prompt, user_feedback)
        returned == IF error0 = "" THEN GenResult(sb.model, resp) ELSE None
        refined_prompt == IF stopped THEN None ELSE returned
        calls == IF error0 = "" THEN GenCalls(sb.model, "refine", request, resp) ELSE <<>>
        error == IF error0 = "" /\ ~Truthy(returned) /\ ~stopped
                 THEN "Failed to refine prompt" ELSE error0
        applied == ApplyRefinement(refinement_history, master_prompt, user_feedback,
                                   refined_prompt)
    IN  /\ Truthy(master_prompt)
        /\ Len(refinement_history) < MaxRefinements
        /\ stopped => error0 = ""
        /\ IF Truthy(refined_prompt)
           THEN /\ refinement_history' = applied.refinement_history
                /\ master_prompt' = applied.master_prompt
                /\ api_configured' \in AfterRerun(sb.api_configured, gemini_key)
           ELSE /\ UNCHANGED <<refinement_history, master_prompt>>
                /\ api_configured' = sb.api_configured
        /\ run' = RunRec("refine", [gemini_key |-> gemini_key, feedback |-> user_feedback,
                                   stopped |-> stopped],
                         error, calls, <<>>, 0, 0)
        /\ UNCHANGED <<primary_prompt, call_insights, transcriptions, current_phase,
                       agent_details, refinement_chat, segVars>>

----------------------------------------------------------------------------
\* Final results (lines 1280-1470); shown while a master prompt exists

EvolutionResponses == {GenRaise, "", "analysis"}

\* The values the handler interpolates into its request (lines 1359-1411)
EvolutionRequest(details, primary, master, insights, history) ==
    [agent |-> [name     |-> Get(details, "name", "N/A"),
                company  |-> Get(details, "company", "N/A"),
                language |-> Get(details, "language", "N/A"),
                category |-> Get(details, "category", "N/A")],
     primary_prompt |-> primary, master_prompt |-> master,
     insights_used |-> Len(insights), refinements_made |-> Len(history)]

\* "Generate Evolution Analysis" (lines 1357-1427). The request is made
\* outside any try: with model None, or when it raises, the exception ends
\* the script run; the handler assigns no session state.
GenerateEvolutionAnalysis(resp, gemini_key, configure_raises) ==
    LET sb == Sidebar(api_configured, gemini_key, configure_raises)
        error == IF ~sb.api_configured THEN "Please configure Gemini API key" ELSE ""
        request == EvolutionRequest(agent_details, primary_prompt, master_prompt,
                                    call_insights, refinement_history)
        calls == IF error = "" THEN GenCalls(sb.model, "evolution", request, resp) ELSE <<>>
    IN  /\ Truthy(master_prompt)
        /\ api_configured' = sb.api_configured
        /\ run' = RunRec("generate_evolution", [gemini_key |-> gemini_key],
                         error, calls, <<>>, 0, 0)
        /\ UNCHANGED <<primary_prompt, master_prompt, call_insights, transcriptions,
                       current_phase, agent_details, refinement_history,
                       refinement_chat, segVars>>

----------------------------------------------------------------------------
\* Specifications

\* The recordings and transcription responses of the whole-application model
SessionFiles == {"a.mp3"}

SessionTranscribeResponses == {NoneDict, WordsResult(SampleWords)}

SessionOutcomes == FileOutcomes(SessionTranscribeResponses, InsightResponses \ {""})

Next ==
    \/ \E gk \in KeyInputs : \E cr \in ConfigureOutcomes(gk) : EditSidebar(gk, cr)
    \/ \E gk \in KeyInputs : \E cr \in ConfigureOutcomes(gk) : ResetAllProgress(gk, cr)
    \/ \E n \in AgentNames, c \in CompanyNames, l \in AgentLanguages,
          k \in PromptCategories, gk \in KeyInputs :
          \E cr \in ConfigureOutcomes(gk) : SaveAgentDetails(n, c, l, k, gk, cr)
    \/ \E sc, te \in TypedTexts, resp \in PrimaryResponses, stopped \in BOOLEAN,
          gk \in KeyInputs :
          \E cr \in ConfigureOutcomes(gk) :
             GeneratePrimaryPrompt(sc, te, resp, stopped, gk, cr)
    \/ \E gk, dk \in KeyInputs :
          \E cr \in ConfigureOutcomes(gk) :
             AnalyzeUploaded(MaxRecords, Uploads(SessionFiles, MaxRecords), SessionOutcomes,
                             StopPoints, gk, dk, cr)
    \/ \E gk \in KeyInputs : \E cr \in ConfigureOutcomes(gk) : ProceedToPhase3(gk, cr)
    \/ \E gk \in KeyInputs : \E cr \in ConfigureOutcomes(gk) : RegenerateMasterPrompt(gk, cr)
    \/ \E resp \in MasterResponses, stopped \in BOOLEAN, gk \in KeyInputs :
          \E cr \in ConfigureOutcomes(gk) : GenerateMasterPrompt(resp, stopped, gk, cr)
    \/ \E fb \in TypedTexts, resp \in RefineResponses, stopped \in BOOLEAN,
          gk \in KeyInputs :
          \E cr \in ConfigureOutcomes(gk) : RefinePrompt(fb, resp, stopped, gk, cr)
    \/ \E resp \in EvolutionResponses, gk \in KeyInputs :
          \E cr \in ConfigureOutcomes(gk) : GenerateEvolutionAnalysis(resp, gk, cr)

\* The whole application
Spec == Init /\ [][Next]_vars

\* The whole application again, with other batches and with fewer texts and
\* model responses in the handlers that are not the batch handler: an agent
\* name and a text that are empty or filled, and a model that raises or
\* answers with a text.
BatchAgentNames == {"", "Riya"}

BatchTexts == {<<>>, <<111, 107>>}

BatchSessionNext(cap, uploads, fileOutcomes) ==
    \/ \E gk \in KeyInputs : \E cr \in ConfigureOutcomes(gk) : EditSidebar(gk, cr)
    \/ \E gk \in KeyInputs : \E cr \in ConfigureOutcomes(gk) : ResetAllProgress(gk, cr)
    \/ \E n \in BatchAgentNames, c \in CompanyNames, l \in AgentLanguages,
          k \in PromptCategories, gk \in KeyInputs :
          \E cr \in ConfigureOutcomes(gk) : SaveAgentDetails(n, c, l, k, gk, cr)
    \/ \E sc, te \in BatchTexts, resp \in PrimaryResponses \ {""}, stopped \in BOOLEAN,
          gk \in KeyInputs :
          \E cr \in ConfigureOutcomes(gk) :
             GeneratePrimaryPrompt(sc, te, resp, stopped, gk, cr)
    \/ \E gk, dk \in KeyInputs :
          \E cr \in ConfigureOutcomes(gk) :
             AnalyzeUploaded(cap, uploads, fileOutcomes, StopPoints, gk, dk, cr)
    \/ \E gk \in KeyInputs : \E cr \in ConfigureOutcomes(gk) : ProceedToPhase3(gk, cr)
    \/ \E gk \in KeyInputs : \E cr \in ConfigureOutcomes(gk) : RegenerateMasterPrompt(gk, cr)
    \/ \E resp \in MasterResponses \ {""}, stopped \in BOOLEAN, gk \in KeyInputs :
          \E cr \in ConfigureOutcomes(gk) : GenerateMasterPrompt(resp, stopped, gk, cr)
    \/ \E fb \in BatchTexts, resp \in RefineResponses \ {""}, stopped \in BOOLEAN,
          gk \in KeyInputs :
          \E cr \in ConfigureOutcomes(gk) : RefinePrompt(fb, resp, stopped, gk, cr)
    \/ \E resp \in EvolutionResponses \ {""}, gk \in KeyInputs :
          \E cr \in ConfigureOutcomes(gk) : GenerateEvolutionAnalysis(resp, gk, cr)

\* Batches of up to MaxBatchRecords files of one name. A file is not
\* transcribed; or its words are returned and the insight request raises or
\* is answered.
BatchOutcomes ==
    FileOutcomes({NoneDict, WordsResult(SampleWords)}, {GenRaise, "insights A"})

BatchNext ==
    BatchSessionNext(MaxBatchRecords, Uploads(SessionFiles, MaxBatchRecords), BatchOutcomes)

BatchSpec == Init /\ [][BatchNext]_vars

\* Batches of files of different names
DistinctUploads(names) ==
    {u \in Uploads(names, Cardinality(names)) :
        \A i, j \in 1..Len(u) : u[i] = u[j] => i = j}

OrderNext ==
    BatchSessionNext(MaxRecords, DistinctUploads(FileNames), BatchOutcomes)

OrderSpec == Init /\ [][OrderNext]_vars

\* Batches in which the transcription service can also return a body without
\* "results", after which the insight request raises or is answered
ResponseOutcomes ==
    FileOutcomes(TranscribeResponses, {GenRaise, "insights A"})

ResponseNext ==
    BatchSessionNext(MaxRecords, Uploads(SessionFiles, MaxRecords), ResponseOutcomes)

ResponseSpec == Init /\ [][ResponseNext]_vars

\* The segmenter alone, on every bounded transcription result
SegInit ==
    /\ primary_prompt = Defaults.primary_prompt
    /\ master_prompt = Defaults.master_prompt
    /\ call_insights = Defaults.call_insights
    /\ transcriptions = Defaults.transcriptions
    /\ api_configured = Defaults.api_configured
    /\ current_phase = Defaults.current_phase
    /\ agent_details = Defaults.agent_details
    /\ refinement_history = Defaults.refinement_history
    /\ refinement_chat = Defaults.refinement_chat
    /\ run = NoRun
    /\ seg_in \in SegInputs
    /\ seg_out = SegPending

SegNext == Segment

SegSpec == SegInit /\ [][SegNext]_vars

----------------------------------------------------------------------------
\* Properties of the transcript segmenter (under SegSpec)

SegWords == WordsOf(seg_in)

\* The number of maximal runs of consecutive words with the same speaker id
NumRuns(words) ==
    Cardinality({i \in 1..Len(words) : i = 1 \/ words[i].speaker # words[i - 1].speaker})

\* C1: for a non-empty word list, format_transcript emits as many turn lines
\* as the list has maximal runs of consecutive words of one speaker.
C1_TurnCountEqualsRuns ==
    (seg_out.done /\ HasWords(seg_in) /\ Len(SegWords) > 0)
        => Len(seg_out.lines) = NumRuns(SegWords)

\* Three words, the first two of one speaker: two runs, two lines
C1_Witness ==
    /\ seg_out.done
    /\ HasWords(seg_in)
    /\ Len(SegWords) = 3
    /\ SegWords[1].speaker = SegWords[2].speaker
    /\ SegWords[2].speaker # SegWords[3].speaker
    /\ Len(seg_out.lines) = 2

WordTextsOf(words) == [i \in 1..Len(words) |-> words[i].word]

\* The utterance of each emitted turn: ' '.join(current_text)
Utterances(blocks) == [i \in 1..Len(blocks) |-> JoinStr(blocks[i].text, " ")]

\* C2: the utterances of the emitted turns, joined by single spaces in output
\* order, are the input word texts joined by single spaces; the words of the
\* turns, taken turn by turn, are the input words in their order.
C2_UtterancesReproduceWords ==
    (seg_out.done /\ HasWords(seg_in))
        => /\ JoinStr(Utterances(seg_out.blocks), " ") = JoinStr(WordTextsOf(SegWords), " ")
           /\ Flatten([i \in 1..Len(seg_out.blocks) |-> seg_out.blocks[i].text])
                 = WordTextsOf(SegWords)

\* Two turns, the first of two different words
C2_Witness ==
    /\ seg_out.done
    /\ HasWords(seg_in)
    /\ Len(SegWords) = 3
    /\ Len(seg_out.blocks) = 2
    /\ seg_out.blocks[1].text = <<"hi", "there">>
    /\ seg_out.blocks[2].text = <<"hi">>

----------------------------------------------------------------------------
\* Properties of the session (under Spec)

History == refinement_history

\* The run was a Refine Prompt in which the model returned a non-empty text
\* and the script run went on to the end of the handler
RefineReturned(r) ==
    /\ r.op = "refine"
    /\ Len(r.calls) = 1
    /\ r.calls[1].response \notin {GenRaise, ""}
    /\ ~r.inputs.stopped

\* C3: a Refine Prompt in which the model returns a non-empty text, and whose
\* script run is not stopped before the text is stored, appends exactly one
\* record, whose old_prompt is the master prompt held before the
\* action and whose new_prompt is the returned text, and makes the returned
\* text the master prompt.
C3_RefinementRecorded ==
    [][RefineReturned(run') =>
          /\ Len(refinement_history') = Len(refinement_history) + 1
          /\ SubSeq(refinement_history', 1, Len(refinement_history)) = refinement_history
          /\ refinement_history'[Len(refinement_history')].old_prompt = master_prompt
          /\ refinement_history'[Len(refinement_history')].new_prompt = run'.calls[1].response
          /\ master_prompt' = run'.calls[1].response]_vars

\* A refinement that turned "master v1" into "master v2"
C3_Witness ==
    /\ RefineReturned(run)
    /\ Len(History) >= 1
    /\ History[Len(History)].old_prompt = "master v1"
    /\ History[Len(History)].new_prompt = "master v2"
    /\ master_prompt = "master v2"

\* C4: the refinement history is a linear version chain: new_prompt of a
\* record is old_prompt of the next, and new_prompt of the last record is the
\* current master prompt when there is one.
C4_LinearVersionChain ==
    /\ \A k \in 1..(Len(History) - 1) : History[k].new_prompt = History[k + 1].old_prompt
    /\ (Len(History) > 0 /\ Truthy(master_prompt))
          => History[Len(History)].new_prompt = master_prompt

\* C5: after Reset All Progress and the rerun it triggers, the primary and
\* master prompts are absent, the insight and refinement lists are empty, the
\* agent details are empty and the phase is 1.
C5_ResetClearsEverything ==
    run.op = "reset" =>
        /\ primary_prompt = None
        /\ master_prompt = None
        /\ call_insights = <<>>
        /\ refinement_history = <<>>
        /\ DOMAIN agent_details = {}
        /\ current_phase = 1

\* A reset of a session that held a master prompt, insights and refinements
C5_Witness ==
    /\ run.op = "reset"
    /\ run.inputs.had_primary
    /\ run.inputs.had_master
    /\ run.inputs.insights >= 1
    /\ run.inputs.refinements >= 1
    /\ refinement_history = <<>>
    /\ master_prompt = None

\* C6: while there is no primary prompt the phase is 1, and right after a
\* primary prompt is recorded the phase is 2.
C6_PhaseOneThenTwo ==
    /\ ~Truthy(primary_prompt) => current_phase = 1
    /\ (run.op = "generate_primary" /\ Truthy(primary_prompt))
          => current_phase = 2 /\ Len(call_insights) = 0

\* The state right after the primary prompt was recorded
C6_Witness ==
    /\ run.op = "generate_primary"
    /\ primary_prompt = "primary v1"
    /\ current_phase = 2

\* C7: whenever there is an insight record and no master prompt, the phase is 3.
C7_PhaseThreeWithInsights ==
    (Len(call_insights) > 0 /\ ~Truthy(master_prompt)) => current_phase = 3

\* C8: whenever there is a master prompt, the phase is 4.
C8_PhaseFourWithMaster ==
    Truthy(master_prompt) => current_phase = 4

----------------------------------------------------------------------------
\* Properties of batch analysis (under BatchSpec, OrderSpec and ResponseSpec)

\* The run was an "Analyze" press that got past the two key checks
BatchStarted(r) == r.op = "analyze_calls" /\ r.error = ""

\* ... and processed its files to the end of the loop
BatchRan(r) == BatchStarted(r) /\ r.inputs.stop = NoStop

\* list is new with zero or more entries removed from its end
IsPrefix(list, new) ==
    Len(new) >= Len(list) /\ SubSeq(new, 1, Len(list)) = list

\* The transcription requests of a run, and the requests sent to the model
DeepgramCalls(r) == SelectSeq(r.calls, LAMBDA c : c.to = "deepgram")

GeminiCalls(r) == SelectSeq(r.calls, LAMBDA c : c.to = "gemini")

FailedTranscriptions(r) ==
    {i \in 1..Len(DeepgramCalls(r)) : ~TruthyDict(DeepgramCalls(r)[i].response)}

\* Every insight request of the run was answered with a non-empty text
AllInsightsReturned(r) ==
    \A i \in 1..Len(GeminiCalls(r)) : GeminiCalls(r)[i].response \notin {GenRaise, ""}

\* C9: a batch of N files ends with successes + failures = N and with as many
\* new insight records as successes; when exactly one transcription fails
\* and every other step succeeds, the list gains N - 1 records and the
\* failure count is 1. A batch whose script run is stopped part-way has
\* counted at most N files, and as many new insight records as successes.
C9_BatchCounts ==
    [][LET N == Len(run'.files)
       IN  /\ BatchStarted(run') =>
                 /\ run'.successful_analyses + run'.failed_analyses <= N
                 /\ Len(call_insights') = Len(call_insights) + run'.successful_analyses
           /\ BatchRan(run') =>
                 /\ run'.successful_analyses + run'.failed_analyses = N
                 /\ (/\ Cardinality(FailedTranscriptions(run')) = 1
                     /\ Len(GeminiCalls(run')) = N - 1
                     /\ AllInsightsReturned(run'))
                       => /\ Len(call_insights') = Len(call_insights) + N - 1
                          /\ run'.failed_analyses = 1]_vars

\* A batch of three files whose second transcription failed
C9_Witness ==
    /\ BatchRan(run)
    /\ Len(run.files) = 3
    /\ FailedTranscriptions(run) = {2}
    /\ Len(GeminiCalls(run)) = 2
    /\ AllInsightsReturned(run)
    /\ Len(call_insights) = 2
    /\ run.failed_analyses = 1
    /\ run.successful_analyses = 2

\* The files of a run whose insight request was answered with a non-empty
\* text, in the order of the requests; the request for a file directly
\* follows the transcription request for that file.
AnalysedFiles(r) ==
    LET answered == SelectSeq([j \in 1..Len(r.calls) |-> j],
                              LAMBDA j : /\ r.calls[j].to = "gemini"
                                         /\ r.calls[j].response \notin {GenRaise, ""})
    IN  [i \in 1..Len(answered) |-> r.calls[answered[i] - 1].request.file]

FileNamesOf(records) == [i \in 1..Len(records) |-> records[i].filename]

\* The files of the transcription requests of a run, in the order sent
TranscribedFiles(r) ==
    [i \in 1..Len(DeepgramCalls(r)) |-> DeepgramCalls(r)[i].request.file]

\* C10: a batch transcribes its files in upload order, and the insight
\* records it appends follow the records of earlier batches, in the order of
\* their files in the upload list. A batch whose script run is stopped
\* part-way has done so for the files it got to.
C10_BatchOrder ==
    [][LET appended == FileNamesOf(SubSeq(call_insights', Len(call_insights) + 1,
                                          Len(call_insights')))
       IN  /\ BatchStarted(run') =>
                 /\ IsPrefix(TranscribedFiles(run'), run'.files)
                 /\ IsPrefix(call_insights, call_insights')
                 /\ IsPrefix(appended, AnalysedFiles(run'))
           /\ BatchRan(run') =>
                 /\ TranscribedFiles(run') = run'.files
                 /\ appended = AnalysedFiles(run')]_vars

\* The two records of a batch that was uploaded as b.mp3, a.mp3
C10_Witness ==
    /\ BatchRan(run)
    /\ run.files = <<"b.mp3", "a.mp3">>
    /\ run.successful_analyses = 2
    /\ FileNamesOf(call_insights) = <<"b.mp3", "a.mp3">>

\* C11: a batch sends exactly one transcription request per file, in the
\* order of the files; a request to the model directly follows a transcription
\* request that returned a result and carries the transcript made of that
\* result, so there is at most one per file; a request that failed is followed
\* by the request of the next file or by nothing. A batch whose script run
\* is stopped part-way has sent these requests for the files it got to.
C11_OneCallPerFile ==
    /\ BatchRan(run) => TranscribedFiles(run) = run.files
    /\ BatchStarted(run) =>
          /\ IsPrefix(TranscribedFiles(run), run.files)
          /\ Len(GeminiCalls(run)) <= Len(DeepgramCalls(run))
          /\ \A j \in 1..Len(run.calls) :
                run.calls[j].to = "gemini" =>
                   /\ j > 1
                   /\ run.calls[j - 1].to = "deepgram"
                   /\ TruthyDict(run.calls[j - 1].response)
                   /\ run.calls[j].request.transcript
                         = format_transcript(run.calls[j - 1].response)
          /\ \A j \in 1..(Len(run.calls) - 1) :
                (\/ run.calls[j].to = "gemini"
                 \/ ~TruthyDict(run.calls[j].response))
                   => run.calls[j + 1].to = "deepgram"

\* Three files: the first is not transcribed, the insight request of the
\* second raises, the third is analysed
C11_Witness ==
    /\ BatchRan(run)
    /\ Len(run.files) = 3
    /\ Len(run.calls) = 5
    /\ ~TruthyDict(run.calls[1].response)
    /\ run.calls[3].to = "gemini"
    /\ run.calls[3].response = GenRaise
    /\ run.calls[5].to = "gemini"
    /\ run.calls[5].response = "insights A"

\* Python's list[-n:] for n > 0
LastEntries(list, n) ==
    SubSeq(list, IF Len(list) > n THEN Len(list) - n + 1 ELSE 1, Len(list))

\* recent_insights (line 961)
RecentInsights(insights, successful_analyses) == LastEntries(insights, successful_analyses)

\* C12: after a batch with at least one success, the file names of
\* recent_insights are the names of the files of this batch whose
\* transcription and insight extraction both succeeded, in processing order.
C12_ReportedFiles ==
    (BatchRan(run) /\ run.successful_analyses > 0) =>
        FileNamesOf(RecentInsights(call_insights, run.successful_analyses))
            = AnalysedFiles(run)

\* A batch b.mp3, a.mp3 whose first file failed at insight extraction
C12_Witness ==
    /\ BatchRan(run)
    /\ run.files = <<"b.mp3", "a.mp3">>
    /\ run.successful_analyses = 1
    /\ run.failed_analyses = 1
    /\ Len(GeminiCalls(run)) = 2
    /\ FileNamesOf(call_insights) = <<"a.mp3">>

----------------------------------------------------------------------------
\* Properties of the session between resets and of failing actions (under Spec)

\* C13: a script run other than Reset All Progress leaves every insight
\* record and every refinement record in place, with the same fields at the
\* same index; the two lists only grow at the end.
C13_AppendOnly ==
    [][run'.op # "reset" =>
          /\ IsPrefix(call_insights, call_insights')
          /\ IsPrefix(refinement_history, refinement_history')]_vars

\* A second refinement, made with two insight records in the list: the record
\* of the first refinement is still the first
C13_Witness ==
    /\ RefineReturned(run)
    /\ Len(call_insights) = 2
    /\ Len(History) = 2
    /\ History[1].old_prompt = "master v1"
    /\ History[2].old_prompt = "master v2"

\* C14: a script run other than Reset All Progress leaves a primary prompt
\* that exists in existence, and a master prompt that exists in existence.
C14_ArtifactsStay ==
    [][run'.op # "reset" =>
          /\ Truthy(primary_prompt) => Truthy(primary_prompt')
          /\ Truthy(master_prompt) => Truthy(master_prompt')]_vars

\* C15: a script run other than Reset All Progress leaves saved agent details
\* as they are.
C15_AgentDetailsImmutable ==
    [][(run'.op # "reset" /\ DOMAIN agent_details # {})
          => agent_details' = agent_details]_vars

\* A field left empty or filled with white space only
BlankField(text) == text \in {"", " "}

\* C16: a Save Agent Details with one of the four fields blank shows the
\* error and leaves the stored agent details as they were.
C16_BlankFieldRejected ==
    [][(run'.op = "save_agent_details" /\ \E i \in 1..4 : BlankField(run'.inputs[i]))
          => /\ run'.error = "Please fill all required fields"
             /\ agent_details' = agent_details]_vars

\* The run got as far as calling the model and got no text from it: the call
\* raised (also for want of a model object) or returned the empty text
GenerationFailed(r) ==
    \/ /\ r.op = "generate_primary"
       /\ r.error = ""
       /\ (r.calls = <<>> \/ r.calls[1].response \in {GenRaise, ""})
    \/ r.op = "generate_master" /\ r.error = "Failed to generate master prompt"
    \/ r.op = "refine" /\ r.error = "Failed to refine prompt"

\* C17: a Generate Primary Prompt, Generate Master Prompt or Refine Prompt
\* whose call of the model raises or returns no text leaves the primary
\* prompt, the master prompt, the insight list, the refinement history and
\* the phase unchanged.
C17_FailedGenerationKeepsState ==
    [][GenerationFailed(run') =>
          UNCHANGED <<primary_prompt, master_prompt, call_insights,
                      refinement_history, current_phase>>]_vars

\* A refinement whose request raised, after one that succeeded
C17_Witness ==
    /\ run.op = "refine"
    /\ run.error = "Failed to refine prompt"
    /\ Len(run.calls) = 1
    /\ run.calls[1].response = GenRaise
    /\ master_prompt = "master v2"
    /\ Len(History) = 1

\* A text of nothing but white space
Blank(text) == \A i \in 1..Len(text) : text[i] \in WhiteSpace

\* The state of the workflow: all of the session state but the sidebar's flag
workflowVars == <<primary_prompt, master_prompt, call_insights, transcriptions,
                  current_phase, agent_details, refinement_history, refinement_chat>>

\* C18: a Generate Primary Prompt pressed without saved agent details or with
\* a blank script or template, and a Refine Prompt pressed with a blank
\* feedback, send no request to the model and leave the workflow state
\* unchanged.
C18_ValidationBlocks ==
    [][(\/ /\ run'.op = "generate_primary"
           /\ \/ DOMAIN agent_details = {}
              \/ Blank(run'.inputs.script)
              \/ Blank(run'.inputs.template)
        \/ /\ run'.op = "refine"
           /\ Blank(run'.inputs.feedback))
          => /\ run'.calls = <<>>
             /\ UNCHANGED workflowVars]_vars

\* A Generate Primary Prompt with saved details, a key, a script and a
\* template of one space
C18_Witness ==
    /\ run.op = "generate_primary"
    /\ run.inputs.gemini_key = "key"
    /\ run.inputs.script = <<111, 107>>
    /\ run.inputs.template = <<32>>
    /\ run.error = "Please provide a template"
    /\ DOMAIN agent_details # {}
    /\ primary_prompt = None

\* C19: an action triggered while the Gemini key field is empty, or a batch
\* analysis triggered while the Deepgram key field is empty, sends no request
\* to either collaborator and appends nothing to the transcription and
\* insight lists, whatever was entered in earlier script runs.
C19_MissingKeyBlocks ==
    [][(/\ run'.op \in {"generate_primary", "analyze_calls", "generate_master", "refine"}
        /\ \/ run'.inputs.gemini_key = ""
           \/ run'.op = "analyze_calls" /\ run'.inputs.deepgram_key = "")
          => /\ run'.calls = <<>>
             /\ transcriptions' = transcriptions
             /\ call_insights' = call_insights]_vars

----------------------------------------------------------------------------
\* The timestamps of the segmenter (under SegSpec)

\* [HH:MM:SS] of a number of whole seconds below a day, each part of two digits
PaddedHMS(n) ==
    "[" \o Pad2(n \div 3600) \o ":" \o Pad2((n % 3600) \div 60) \o ":" \o Pad2(n % 60) \o "]"

\* C20: the line of every turn that starts before 86400 s begins with the
\* start time, truncated to whole seconds, as [HH:MM:SS] with hours, minutes
\* and seconds of two digits each.
C20_PaddedTimestamp ==
    seg_out.done =>
        \A i \in 1..Len(seg_out.blocks) :
            LET b == seg_out.blocks[i]
            IN  b.start < 864000 =>
                   seg_out.lines[i] = PaddedHMS(b.start \div 10) \o " " \o b.speaker
                                         \o ": \"" \o JoinStr(b.text, " ") \o "\""

\* H:MM:SS of a number of whole seconds below a day, as the code renders it
HMSFields(n) ==
    "[" \o ToString(n \div 3600) \o ":" \o Pad2((n % 3600) \div 60) \o ":" \o Pad2(n % 60) \o "]"

\* The text of a turn line after its timestamp
AfterStamp(b) == " " \o b.speaker \o ": \"" \o JoinStr(b.text, " ") \o "\""

\* C21: the timestamp of a turn that starts at t is the timestamp of floor(t):
\* its hour, minute and second fields are those of the whole seconds of t, and
\* a fraction never carries into a field (59.9 s shows 59 seconds).
C21_TimestampTruncates ==
    seg_out.done =>
        \A i \in 1..Len(seg_out.blocks) :
            LET b     == seg_out.blocks[i]
                floor == b.start \div 10
            IN  /\ seg_out.lines[i] = seconds_to_hms(floor * 10) \o AfterStamp(b)
                /\ b.start < 864000 => seg_out.lines[i] = HMSFields(floor) \o AfterStamp(b)

\* A turn that starts at 59.9 s and shows 59 seconds
C21_Witness ==
    /\ seg_out.done
    /\ Len(seg_out.blocks) >= 1
    /\ seg_out.blocks[1].start = 599
    /\ seg_out.lines[1] = "[0:00:59] Speaker 1: \"hi\""

\* C22: for a transcription result whose word list is empty, format_transcript
\* returns "No transcription available".
C22_EmptyWordListSentinel ==
    (seg_out.done /\ HasWords(seg_in) /\ Len(SegWords) = 0)
        => seg_out.text = NoTranscription

\* The indices of the words that open a run of one speaker, in order
RunStarts(words) ==
    SelectSeq([i \in 1..Len(words) |-> i],
              LAMBDA i : i = 1 \/ words[i].speaker # words[i - 1].speaker)

\* C23: the k-th emitted turn carries the start time of the first word of
\* the k-th run of one speaker and the label "Speaker <speaker id + 1>" of
\* that run.
C23_TurnAttributes ==
    (seg_out.done /\ HasWords(seg_in)) =>
        /\ Len(seg_out.blocks) = Len(RunStarts(SegWords))
        /\ \A k \in 1..Len(seg_out.blocks) :
              LET first == SegWords[RunStarts(SegWords)[k]]
              IN  /\ seg_out.blocks[k].start = first.start
                  /\ seg_out.blocks[k].speaker = "Speaker " \o ToString(first.speaker + 1)

\* (hi, 0.0, 0), (there, 0.4, 0), (hi, 1.0, 1): Speaker 1 from 0.0, then
\* Speaker 2 from 1.0
C23_Witness ==
    /\ seg_out.done
    /\ HasWords(seg_in)
    /\ Len(SegWords) = 3
    /\ SegWords[1].start = 0 /\ SegWords[2].start = 4 /\ SegWords[3].start = 10
    /\ SegWords[1].speaker = 0 /\ SegWords[2].speaker = 0 /\ SegWords[3].speaker = 1
    /\ Len(seg_out.blocks) = 2
    /\ seg_out.blocks[1].start = 0 /\ seg_out.blocks[1].speaker = "Speaker 1"
    /\ seg_out.blocks[2].start = 10 /\ seg_out.blocks[2].speaker = "Speaker 2"

----------------------------------------------------------------------------
\* Properties of master-prompt generation and of the phases (under Spec)

RECURSIVE InsightsUpTo(_, _)
\* The insights texts of the first k records, each followed by the separator
\* line but the last
InsightsUpTo(records, k) ==
    IF k = 1 THEN records[1].insights
    ELSE InsightsUpTo(records, k - 1) \o "\n\n---\n\n" \o records[k].insights

\* C24: the request of a Generate Master Prompt embeds the primary prompt and
\* the insights text of every record the insight list holds when the button
\* is pressed, each once, in list order, with the separator between them.
C24_MasterRequestFoldsInsights ==
    [][(run'.op = "generate_master" /\ Len(run'.calls) = 1) =>
          /\ run'.calls[1].request.primary_prompt = primary_prompt
          /\ run'.calls[1].request.combined_insights
                = InsightsUpTo(call_insights, Len(call_insights))]_vars

\* A master prompt generated from two records with different insights
C24_Witness ==
    /\ run.op = "generate_master"
    /\ Len(run.calls) = 1
    /\ Len(call_insights) = 2
    /\ call_insights[1].insights = "insights B"
    /\ call_insights[2].insights = "insights A"
    /\ run.calls[1].request.combined_insights = "insights B\n\n---\n\ninsights A"
    /\ run.calls[1].request.primary_prompt = "primary v1"
    /\ master_prompt = "master v1"

\* C25: whenever a master prompt exists, a primary prompt exists and the
\* insight list has at least one record.
C25_MasterNeedsPrimaryAndInsights ==
    Truthy(master_prompt) => (Truthy(primary_prompt) /\ Len(call_insights) >= 1)

\* The state right after the master prompt was recorded
C25_Witness ==
    /\ run.op = "generate_master"
    /\ master_prompt = "master v1"
    /\ primary_prompt = "primary v1"
    /\ Len(call_insights) = 1

AgentKeys == {"name", "company", "language", "category"}

\* The run sent a request that interpolates the agent details
ComposedWithAgent(r) ==
    r.op \in {"generate_primary", "generate_master"} /\ Len(r.calls) = 1

\* C26: whenever a primary prompt exists, the stored agent details have the
\* four keys, each with a non-empty value; the agent fields of a primary or
\* master request are the stored values, none a .get default.
C26_AgentDetailsComplete ==
    /\ Truthy(primary_prompt) =>
          /\ DOMAIN agent_details = AgentKeys
          /\ \A k \in AgentKeys : agent_details[k] # ""
    /\ ComposedWithAgent(run) =>
          /\ DOMAIN agent_details = AgentKeys
          /\ run.calls[1].request.agent = agent_details

\* A primary prompt generated for Riya of Acme
C26_Witness ==
    /\ run.op = "generate_primary"
    /\ primary_prompt = "primary v1"
    /\ Len(run.calls) = 1
    /\ run.calls[1].request.agent.name = "Riya"
    /\ run.calls[1].request.agent.company = "Acme"
    /\ agent_details.name = "Riya"

\* C27: whenever the stored phase is 4, a master prompt exists.
C27_PhaseFourNeedsMaster ==
    current_phase = 4 => Truthy(master_prompt)

\* C28: Regenerate Master Prompt sets the master prompt to None and leaves
\* the primary prompt, the agent details, the insight and transcription
\* lists, the refinement history and the stored phase unchanged.
C28_RegenerateFrame ==
    [][run'.op = "regenerate_master" =>
          /\ master_prompt' = None
          /\ UNCHANGED <<primary_prompt, agent_details, call_insights, transcriptions,
                         refinement_history, current_phase>>]_vars

\* A regeneration in phase 4, with a refinement on record
C28_Witness ==
    /\ run.op = "regenerate_master"
    /\ master_prompt = None
    /\ primary_prompt = "primary v1"
    /\ current_phase = 4
    /\ Len(call_insights) >= 1
    /\ Len(refinement_history) >= 1

----------------------------------------------------------------------------
\* Transcripts and insight records

\* Every insight record has a transcription entry of the same file name and
\* transcript
InsightsHaveTranscripts(insights, trs) ==
    /\ \A i \in 1..Len(insights) :
          \E t \in 1..Len(trs) :
             /\ trs[t].filename = insights[i].filename
             /\ trs[t].transcript = insights[i].transcript
    /\ Len(trs) >= Len(insights)

\* The transcription requests of a run that returned a result
Transcribed(r) ==
    SelectSeq(r.calls, LAMBDA c : c.to = "deepgram" /\ TruthyDict(c.response))

\* C29: after every script run each insight record's file name and
\* transcript are those of an entry of the transcription list, which is at
\* least as long as the insight list; a batch adds one transcription entry
\* per transcribed file and one insight record per analysed file, and counts
\* one failure for every other file, so that a file that is transcribed but
\* not analysed adds one entry, no record and one failure.
C29_TranscriptPerInsight ==
    [][/\ InsightsHaveTranscripts(call_insights', transcriptions')
       /\ BatchRan(run') =>
             /\ Len(transcriptions') = Len(transcriptions) + Len(Transcribed(run'))
             /\ Len(call_insights') = Len(call_insights) + Len(AnalysedFiles(run'))
             /\ run'.failed_analyses = Len(run'.files) - Len(AnalysedFiles(run'))]_vars

\* After an analysed file, a file whose transcription succeeded and whose
\* insight request raised
C29_Witness ==
    /\ BatchRan(run)
    /\ run.files = <<"a.mp3">>
    /\ Len(run.calls) = 2
    /\ TruthyDict(run.calls[1].response)
    /\ run.calls[2].response = GenRaise
    /\ run.failed_analyses = 1
    /\ run.successful_analyses = 0
    /\ Len(transcriptions) = 2
    /\ Len(call_insights) = 1

\* A response body that is a non-empty dict without a "results" key
LacksResults(response) ==
    /\ DOMAIN response # {}
    /\ "pyNone" \notin DOMAIN response
    /\ "results" \notin DOMAIN response

\* The positions, among the requests of a run, of the insight requests that
\* were answered with a non-empty text
Answered(r) ==
    SelectSeq([j \in 1..Len(r.calls) |-> j],
              LAMBDA j : /\ r.calls[j].to = "gemini"
                         /\ r.calls[j].response \notin {GenRaise, ""})

\* The positions, among the requests of a run, of the transcription requests
\* that returned a response body with at least one key
TranscribedAt(r) ==
    SelectSeq([j \in 1..Len(r.calls) |-> j],
              LAMBDA j : /\ r.calls[j].to = "deepgram"
                         /\ \/ LacksResults(r.calls[j].response)
                            \/ "results" \in DOMAIN r.calls[j].response)

\* C30: in a batch, a transcription response that is a non-empty dict without
\* a "results" key is not a failed transcription: the entry appended to the
\* transcription list for the file holds "No transcription available", and
\* extract_call_insights is called with it. With a model object the insight
\* request of the file follows, with that text as the transcript; when the
\* request is answered, the record appended for it carries that transcript,
\* the file's name and the answer, and the file counts as a success. Without
\* a model object (the key field is empty) the call raises before any
\* request is sent and no file counts as a success.
C30_ResultsKeyMissing ==
    [][BatchRan(run') =>
          LET added == SubSeq(transcriptions', Len(transcriptions) + 1,
                              Len(transcriptions'))
          IN  /\ Len(added) = Len(TranscribedAt(run'))
              /\ \A k \in 1..Len(TranscribedAt(run')) :
                    LET j == TranscribedAt(run')[k]
                    IN  LacksResults(run'.calls[j].response) =>
                           /\ added[k].filename = run'.calls[j].request.file
                           /\ added[k].transcript = "No transcription available"
                           /\ run'.inputs.gemini_key # "" =>
                                 /\ j < Len(run'.calls)
                                 /\ run'.calls[j + 1].to = "gemini"
                                 /\ run'.calls[j + 1].request.transcript
                                       = "No transcription available"
              /\ run'.inputs.gemini_key = "" => GeminiCalls(run') = <<>>
              /\ run'.successful_analyses = Len(Answered(run'))
              /\ \A k \in 1..Len(Answered(run')) :
                    LET j   == Answered(run')[k]
                        rec == RecentInsights(call_insights', run'.successful_analyses)[k]
                    IN  LacksResults(run'.calls[j - 1].response) =>
                           /\ rec.transcript = "No transcription available"
                           /\ rec.insights = run'.calls[j].response
                           /\ rec.filename = run'.calls[j - 1].request.file]_vars

\* A batch of two files: the first is analysed from its words, the response
\* for the second has no "results" key and it is analysed from the sentinel
C30_Witness ==
    /\ BatchRan(run)
    /\ Len(run.files) = 2
    /\ Len(run.calls) = 4
    /\ "results" \in DOMAIN run.calls[1].response
    /\ run.calls[3].response = NoResultsDict
    /\ run.calls[4].response = "insights A"
    /\ run.successful_analyses = 2
    /\ Len(call_insights) = 2
    /\ call_insights[2].transcript = NoTranscription

====
